---- MODULE Spec2Model ----
(***************************************************************************)
(* Model of src/content_blocking.rs: the conversion of parsed adblock      *)
(* filters (network and cosmetic) into content blocking rules, and the     *)
(* iterator over a conversion outcome.                                     *)
(*                                                                         *)
(* Strings are sequences of one-character strings, so that find, split     *)
(* and the three regular-expression substitutions are computed character   *)
(* by character.  Option<T> is Some(v) / None, Result<T, E> is Ok / Err,   *)
(* and a panic (unreachable!, unwrap on None) is the third outcome Panic.  *)
(* A NetworkFilterMask is the set of the flags it contains.                *)
(***************************************************************************)
EXTENDS Naturals, Integers, Sequences, FiniteSets, TLC

VARIABLES filter, call, result, iter, returned, lazy, thread

vars == <<filter, call, result, iter, returned, lazy, thread>>

----------------------------------------------------------------------------
(* Bounds of the model.                                                    *)

\* longest simple filter body enumerated exhaustively over Alphabet
MaxBodyLen == 2
\* most resource-type options given (or negated) in one network rule
MaxTypeOptions == 2
\* most location tokens before the '#' of a cosmetic rule
MaxLocations == 2
\* most calls of next() made on one iterator
MaxNextCalls == 3
\* threads that convert at the same time
NumThreads == 2

----------------------------------------------------------------------------
(* Option, Result.                                                         *)

None == [some |-> FALSE]
Some(v) == [some |-> TRUE, val |-> v]

Ok(v) == [tag |-> "Ok", val |-> v]
Err(name) == [tag |-> "Err", err |-> name, mask |-> {}]
ErrMask(name, m) == [tag |-> "Err", err |-> name, mask |-> m]
Panic(msg) == [tag |-> "Panic", msg |-> msg]

----------------------------------------------------------------------------
(* Strings as character sequences.                                         *)

Str_domain_eq == <<"d", "o", "m", "a", "i", "n", "=">>

\* str::starts_with
StartsWith(s, p) == Len(s) >= Len(p) /\ SubSeq(s, 1, Len(p)) = p

\* str::ends_with
EndsWith(s, p) == Len(s) >= Len(p) /\ SubSeq(s, Len(s) - Len(p) + 1, Len(s)) = p

\* str::find: the 0-based offset of the first occurrence of p in s, if any
Find(s, p) ==
  LET hits == {i \in 0..(Len(s) - Len(p)) : SubSeq(s, i + 1, i + Len(p)) = p}
  IN IF hits = {} THEN None
     ELSE Some(CHOOSE i \in hits : \A j \in hits : i <= j)

\* &s[from..]
SliceFrom(s, from) == SubSeq(s, from + 1, Len(s))

\* &s[..to]
SliceTo(s, to) == SubSeq(s, 1, to)

\* str::split on a one-character separator: the pieces, in order
RECURSIVE Split(_, _)
Split(s, c) ==
  LET at == Find(s, <<c>>)
  IN IF at.some
     THEN <<SliceTo(s, at.val)>> \o Split(SliceFrom(s, at.val + 1), c)
     ELSE <<s>>

\* Iterator::map on a sequence
MapSeq(s, F(_)) == [i \in 1..Len(s) |-> F(s[i])]

\* the concatenation of a sequence of strings
RECURSIVE Concat(_)
Concat(ss) == IF ss = <<>> THEN <<>> ELSE Head(ss) \o Concat(Tail(ss))

----------------------------------------------------------------------------
(* The three matchers of the network conversion and their substitutions.   *)

\* the character class of SPECIAL_CHARS: [.+?^${}()|\[\]]
SpecialChars == {".", "+", "?", "^", "$", "{", "}", "(", ")", "|", "[", "]"}

\* SPECIAL_CHARS.replace_all(s, r"\$1"): every character of the class is
\* replaced by a backslash followed by that character
SPECIAL_CHARS_replace_all(s) ==
  Concat([i \in 1..Len(s) |->
            IF s[i] \in SpecialChars THEN <<"\\", s[i]>> ELSE <<s[i]>>])

\* REPLACE_WILDCARDS.replace_all(s, ".*"): every * is replaced by .*
REPLACE_WILDCARDS_replace_all(s) ==
  Concat([i \in 1..Len(s) |-> IF s[i] = "*" THEN <<".", "*">> ELSE <<s[i]>>])

\* TRAILING_SEPARATOR.replace_all(s, ""): \^$ matches one ^ at the very end
\* of the text, and nowhere else
TRAILING_SEPARATOR_replace_all(s) ==
  IF Len(s) > 0 /\ s[Len(s)] = "^" THEN SubSeq(s, 1, Len(s) - 1) ELSE s

----------------------------------------------------------------------------
(* NetworkFilterMask: the flags the conversion looks at.                   *)

\* the resource-type flags that have a CbResourceType
SupportedTypeFlags ==
  {"FROM_IMAGE", "FROM_MEDIA", "FROM_SCRIPT", "FROM_STYLESHEET",
   "FROM_SUBDOCUMENT", "FROM_XMLHTTPREQUEST", "FROM_FONT"}

\* the resource-type flags that have none
UnsupportedTypeFlags == {"FROM_OBJECT", "FROM_OTHER", "FROM_PING", "FROM_WEBSOCKET"}

\* NetworkFilterMask::FROM_ANY: every resource-type flag
FROM_ANY == SupportedTypeFlags \cup UnsupportedTypeFlags

\* NetworkFilterMask::contains
contains(mask, flags) == flags \subseteq mask

\* FilterPart
Empty == [tag |-> "Empty"]
Simple(part) == [tag |-> "Simple", part |-> part]
AnyOf(parts) == [tag |-> "AnyOf", parts |-> parts]

----------------------------------------------------------------------------
(* TryFrom<NetworkFilter> for CbRuleEquivalent, piece by piece.            *)

non_empty(v) == IF Len(v) > 0 THEN Some(v) ELSE None

\* mutant: the CSP flag is not looked at
unsupported_option_without_csp(v) ==
  IF v.redirect.some THEN Some("NetworkRedirectUnsupported")
  ELSE IF contains(v.mask, {"FUZZY_MATCH"}) THEN Some("NetworkFuzzyMatchUnsupported")
  ELSE IF contains(v.mask, {"GENERIC_HIDE"}) THEN Some("NetworkGenerichideUnsupported")
  ELSE IF contains(v.mask, {"EXPLICIT_CANCEL"}) THEN Some("NetworkExplicitCancelUnsupported")
  ELSE IF contains(v.mask, {"BAD_FILTER"}) THEN Some("NetworkBadFilterUnsupported")
  ELSE None

\* the early returns on unsupported options, in the order of the code
unsupported_option(v) ==
  IF v.redirect.some THEN Some("NetworkRedirectUnsupported")
  ELSE IF contains(v.mask, {"FUZZY_MATCH"}) THEN Some("NetworkFuzzyMatchUnsupported")
  ELSE IF contains(v.mask, {"GENERIC_HIDE"}) THEN Some("NetworkGenerichideUnsupported")
  ELSE IF contains(v.mask, {"EXPLICIT_CANCEL"}) THEN Some("NetworkExplicitCancelUnsupported")
  ELSE IF contains(v.mask, {"BAD_FILTER"}) THEN Some("NetworkBadFilterUnsupported")
  ELSE IF contains(v.mask, {"IS_CSP"}) THEN Some("NetworkCspUnsupported")
  ELSE None

\* mutant: both party flags give both load types
load_type_of_both_listed(mask) ==
  IF contains(mask, {"THIRD_PARTY", "FIRST_PARTY"}) THEN <<"FirstParty", "ThirdParty">>
  ELSE IF contains(mask, {"THIRD_PARTY"}) THEN <<"ThirdParty">>
  ELSE IF contains(mask, {"FIRST_PARTY"}) THEN <<"FirstParty">>
  ELSE <<>>

\* let load_type
load_type_of(mask) ==
  IF contains(mask, {"THIRD_PARTY", "FIRST_PARTY"}) THEN <<>>
  ELSE IF contains(mask, {"THIRD_PARTY"}) THEN <<"ThirdParty">>
  ELSE IF contains(mask, {"FIRST_PARTY"}) THEN <<"FirstParty">>
  ELSE <<>>

\* mutant: the wildcards are replaced before the special characters are escaped
with_fixed_wildcards_then_escaped(part) ==
  LET without_trailing_separator == TRAILING_SEPARATOR_replace_all(part)
      fixed_wildcards == REPLACE_WILDCARDS_replace_all(without_trailing_separator)
  IN SPECIAL_CHARS_replace_all(fixed_wildcards)

\* without_trailing_separator, escaped_special_chars, with_fixed_wildcards
with_fixed_wildcards(part) ==
  LET without_trailing_separator == TRAILING_SEPARATOR_replace_all(part)
      escaped_special_chars == SPECIAL_CHARS_replace_all(without_trailing_separator)
  IN REPLACE_WILDCARDS_replace_all(escaped_special_chars)

\* "^[^:]+:(//)?([^/]+\\.)?"
HostnamePrefix ==
  <<"^", "[", "^", ":", "]", "+", ":", "(", "/", "/", ")", "?",
    "(", "[", "^", "/", "]", "+", "\\", ".", ")", "?">>

Str_http == <<"^", "h", "t", "t", "p", ":", "/", "/">>
Str_https == <<"^", "h", "t", "t", "p", "s", ":", "/", "/">>
Str_https_opt == <<"^", "h", "t", "t", "p", "s", "?", ":", "/", "/">>
Str_wss_opt == <<"^", "w", "s", "s", "?", ":", "/", "/">>
Str_any == <<".", "*">>

\* mutant: http and https together are written as a scheme prefix too
scheme_part_both_anchored(mask) ==
  IF contains(mask, {"FROM_HTTP", "FROM_HTTPS"}) THEN Ok(Str_https_opt \o Str_any)
  ELSE IF contains(mask, {"FROM_HTTP"}) THEN Ok(Str_http \o Str_any)
  ELSE IF contains(mask, {"FROM_HTTPS"}) THEN Ok(Str_https \o Str_any)
  ELSE IF contains(mask, {"FROM_WEBSOCKET"}) THEN Ok(Str_wss_opt \o Str_any)
  ELSE Panic("Invalid scheme information")

\* scheme_part of a simple body without hostname and without left anchor
scheme_part(mask) ==
  IF contains(mask, {"FROM_HTTP", "FROM_HTTPS"}) THEN Ok(<<>>)
  ELSE IF contains(mask, {"FROM_HTTP"}) THEN Ok(Str_http \o Str_any)
  ELSE IF contains(mask, {"FROM_HTTPS"}) THEN Ok(Str_https \o Str_any)
  ELSE IF contains(mask, {"FROM_WEBSOCKET"}) THEN Ok(Str_wss_opt \o Str_any)
  ELSE Panic("Invalid scheme information")

\* mutant: without scheme flags the url filter is that of http and https
bare_scheme_default(mask) ==
  IF contains(mask, {"FROM_HTTP", "FROM_HTTPS"}) THEN Ok(Str_https_opt)
  ELSE IF contains(mask, {"FROM_HTTP"}) THEN Ok(Str_http)
  ELSE IF contains(mask, {"FROM_HTTPS"}) THEN Ok(Str_https)
  ELSE IF contains(mask, {"FROM_WEBSOCKET"}) THEN Ok(Str_wss_opt)
  ELSE Ok(Str_https_opt)

\* the url filter of an empty body without hostname
bare_scheme(mask) ==
  IF contains(mask, {"FROM_HTTP", "FROM_HTTPS"}) THEN Ok(Str_https_opt)
  ELSE IF contains(mask, {"FROM_HTTP"}) THEN Ok(Str_http)
  ELSE IF contains(mask, {"FROM_HTTPS"}) THEN Ok(Str_https)
  ELSE IF contains(mask, {"FROM_WEBSOCKET"}) THEN Ok(Str_wss_opt)
  ELSE Panic("Invalid scheme information")

\* mutant: the right anchor also closes the url filter of an empty body
url_filter_of_empty_right_anchored(v) ==
  IF v.filter.tag = "AnyOf" THEN Err("OptimizedRulesUnsupported")
  ELSE IF v.filter.tag = "Simple" /\ v.hostname.some THEN
    LET url_filter0 == HostnamePrefix \o SPECIAL_CHARS_replace_all(v.hostname.val)
        url_filter1 == IF contains(v.mask, {"IS_HOSTNAME_REGEX"})
                       THEN url_filter0 \o Str_any ELSE url_filter0
        url_filter2 == url_filter1 \o with_fixed_wildcards(v.filter.part)
    IN Ok(IF contains(v.mask, {"IS_RIGHT_ANCHOR"})
          THEN url_filter2 \o <<"$">> ELSE url_filter2)
  ELSE IF v.filter.tag = "Simple" THEN
    LET body == with_fixed_wildcards(v.filter.part)
        scheme == scheme_part(v.mask)
    IN IF contains(v.mask, {"IS_LEFT_ANCHOR"})
       THEN Ok(<<"^">> \o body
               \o (IF contains(v.mask, {"IS_RIGHT_ANCHOR"}) THEN <<"$">> ELSE <<>>))
       ELSE IF scheme.tag # "Ok" THEN scheme
       ELSE Ok(scheme.val \o body
               \o (IF contains(v.mask, {"IS_RIGHT_ANCHOR"}) THEN <<"$">> ELSE <<>>))
  ELSE IF v.hostname.some THEN
    Ok(HostnamePrefix \o SPECIAL_CHARS_replace_all(v.hostname.val)
       \o (IF contains(v.mask, {"IS_RIGHT_ANCHOR"}) THEN <<"$">> ELSE <<>>))
  ELSE bare_scheme(v.mask)

\* match (v.filter, v.hostname): Ok(url_filter), Err or Panic
url_filter_of(v) ==
  IF v.filter.tag = "AnyOf" THEN Err("OptimizedRulesUnsupported")
  ELSE IF v.filter.tag = "Simple" /\ v.hostname.some THEN
    LET url_filter0 == HostnamePrefix \o SPECIAL_CHARS_replace_all(v.hostname.val)
        url_filter1 == IF contains(v.mask, {"IS_HOSTNAME_REGEX"})
                       THEN url_filter0 \o Str_any ELSE url_filter0
        url_filter2 == url_filter1 \o with_fixed_wildcards(v.filter.part)
    IN Ok(IF contains(v.mask, {"IS_RIGHT_ANCHOR"})
          THEN url_filter2 \o <<"$">> ELSE url_filter2)
  ELSE IF v.filter.tag = "Simple" THEN
    LET body == with_fixed_wildcards(v.filter.part)
        scheme == scheme_part(v.mask)
    IN IF contains(v.mask, {"IS_LEFT_ANCHOR"})
       THEN Ok(<<"^">> \o body
               \o (IF contains(v.mask, {"IS_RIGHT_ANCHOR"}) THEN <<"$">> ELSE <<>>))
       ELSE IF scheme.tag # "Ok" THEN scheme
       ELSE Ok(scheme.val \o body
               \o (IF contains(v.mask, {"IS_RIGHT_ANCHOR"}) THEN <<"$">> ELSE <<>>))
  ELSE IF v.hostname.some THEN
    Ok(HostnamePrefix \o SPECIAL_CHARS_replace_all(v.hostname.val))
  ELSE bare_scheme(v.mask)

\* mutant: the ~ of an excluded domain is kept
domain_entries_tilde_kept(domains) ==
  LET IsNot(d) == StartsWith(d, <<"~">>)
      IsIf(d) == ~StartsWith(d, <<"~">>)
      Push(d) == <<"*">> \o d
  IN [if_domain |-> MapSeq(SelectSeq(domains, IsIf), Push),
      unless_domain |-> MapSeq(SelectSeq(domains, IsNot), Push)]

\* the domains.for_each closure: the two lists, each in the order of the text
domain_entries(domains) ==
  LET IsNot(d) == StartsWith(d, <<"~">>)
      IsIf(d) == ~StartsWith(d, <<"~">>)
      PushNot(d) == <<"*">> \o SliceFrom(d, 1)
      PushIf(d) == <<"*">> \o d
  IN [if_domain |-> MapSeq(SelectSeq(domains, IsIf), PushIf),
      unless_domain |-> MapSeq(SelectSeq(domains, IsNot), PushNot)]

\* (if_domain, unless_domain) from the raw line: Ok([if_domain, unless_domain])
\* or Panic when an unwrap meets None
domain_lists(v, raw_line) ==
  IF v.opt_domains.some \/ v.opt_not_domains.some THEN
    LET dollar == Find(raw_line, <<"$">>)
    IN IF ~dollar.some THEN Panic("called Option::unwrap() on a None value")
       ELSE
         LET opts == SliceFrom(raw_line, dollar.val + 1)
             at == Find(opts, Str_domain_eq)
         IN IF ~at.some THEN Panic("called Option::unwrap() on a None value")
            ELSE
              LET domains_start == SliceFrom(opts, at.val + Len(Str_domain_eq))
                  comma == Find(domains_start, <<",">>)
                  domains == Split(IF comma.some
                                   THEN SliceTo(domains_start, comma.val)
                                   ELSE domains_start, "|")
                  lists == domain_entries(domains)
              IN Ok([if_domain |-> non_empty(lists.if_domain),
                     unless_domain |-> non_empty(lists.unless_domain)])
  ELSE Ok([if_domain |-> None, unless_domain |-> None])

blocking_type(mask) ==
  IF contains(mask, {"IS_EXCEPTION"}) THEN "IgnorePreviousRules" ELSE "Block"

\* mutant: the subdocument flag inserts SvgDocument
types_of_svg_document(mask) ==
  (IF contains(mask, {"FROM_IMAGE"}) THEN {"Image"} ELSE {})
  \cup (IF contains(mask, {"FROM_MEDIA"}) THEN {"Media"} ELSE {})
  \cup (IF contains(mask, {"FROM_SCRIPT"}) THEN {"Script"} ELSE {})
  \cup (IF contains(mask, {"FROM_STYLESHEET"}) THEN {"StyleSheet"} ELSE {})
  \cup (IF contains(mask, {"FROM_SUBDOCUMENT"}) THEN {"SvgDocument"} ELSE {})
  \cup (IF contains(mask, {"FROM_XMLHTTPREQUEST"}) THEN {"Raw"} ELSE {})
  \cup (IF contains(mask, {"FROM_FONT"}) THEN {"Font"} ELSE {})

\* the push_if_flag! lines that insert a CbResourceType
types_of(mask) ==
  (IF contains(mask, {"FROM_IMAGE"}) THEN {"Image"} ELSE {})
  \cup (IF contains(mask, {"FROM_MEDIA"}) THEN {"Media"} ELSE {})
  \cup (IF contains(mask, {"FROM_SCRIPT"}) THEN {"Script"} ELSE {})
  \cup (IF contains(mask, {"FROM_STYLESHEET"}) THEN {"StyleSheet"} ELSE {})
  \cup (IF contains(mask, {"FROM_SUBDOCUMENT"}) THEN {"Document"} ELSE {})
  \cup (IF contains(mask, {"FROM_XMLHTTPREQUEST"}) THEN {"Raw"} ELSE {})
  \cup (IF contains(mask, {"FROM_FONT"}) THEN {"Font"} ELSE {})

\* the push_if_flag! lines that collect an unsupported flag
unsupported_flags_of(mask) ==
  (IF contains(mask, {"FROM_OBJECT"}) THEN {"FROM_OBJECT"} ELSE {})
  \cup (IF contains(mask, {"FROM_OTHER"}) THEN {"FROM_OTHER"} ELSE {})
  \cup (IF contains(mask, {"FROM_PING"}) THEN {"FROM_PING"} ELSE {})
  \cup (IF contains(mask, {"FROM_WEBSOCKET"}) THEN {"FROM_WEBSOCKET"} ELSE {})

\* mutant: any unsupported flag fails, whatever else is set
resource_type_of_any_unsupported(mask) ==
  IF contains(mask, FROM_ANY) THEN Ok(None)
  ELSE IF unsupported_flags_of(mask) # {}
    THEN ErrMask("NoSupportedNetworkOptions", unsupported_flags_of(mask))
  ELSE Ok(Some(types_of(mask)))

\* resource_type: Ok(Option<HashSet<CbResourceType>>) or the failure
resource_type_of(mask) ==
  IF contains(mask, FROM_ANY) THEN Ok(None)
  ELSE LET types == types_of(mask)
           unsupported_flags == unsupported_flags_of(mask)
       IN IF unsupported_flags # {} /\ types = {}
          THEN ErrMask("NoSupportedNetworkOptions", unsupported_flags)
          ELSE Ok(Some(types))

url_filter_is_case_sensitive_of(mask) ==
  IF contains(mask, {"MATCH_CASE"}) THEN Some(TRUE) ELSE None

\* CbTrigger { .., ..Default::default() } and CbRule
CbRule(typ, selector, url_filter, case, if_domain, unless_domain, resource_type, load_type) ==
  [action |-> [typ |-> typ, selector |-> selector],
   trigger |-> [url_filter |-> url_filter,
                url_filter_is_case_sensitive |-> case,
                if_domain |-> if_domain,
                unless_domain |-> unless_domain,
                resource_type |-> resource_type,
                load_type |-> load_type,
                if_top_url |-> None,
                unless_top_url |-> None]]

\* CbRuleEquivalent
SingleRule(r) == [variant |-> "SingleRule", r1 |-> r]
SplitDocument(r1, r2) == [variant |-> "SplitDocument", r1 |-> r1, r2 |-> r2]

\* mutant: the split asks for more than two resource types
split_document_more_than_two(single_rule) ==
  LET t == single_rule.trigger
  IN IF t.resource_type.some
        /\ Cardinality(t.resource_type.val) > 2
        /\ "Document" \in t.resource_type.val
        /\ t.load_type = <<>>
     THEN SplitDocument(
            [single_rule EXCEPT !.trigger.resource_type =
                                  Some(t.resource_type.val \ {"Document"})],
            [single_rule EXCEPT !.trigger.resource_type = Some({"Document"}),
                                !.trigger.load_type = <<"ThirdParty">>])
     ELSE SingleRule(single_rule)

\* mutant: the document rule is built on a default trigger
split_document_default_trigger(single_rule) ==
  LET t == single_rule.trigger
  IN IF t.resource_type.some
        /\ Cardinality(t.resource_type.val) > 1
        /\ "Document" \in t.resource_type.val
        /\ t.load_type = <<>>
     THEN SplitDocument(
            [single_rule EXCEPT !.trigger.resource_type =
                                  Some(t.resource_type.val \ {"Document"})],
            [single_rule EXCEPT !.trigger =
               [url_filter |-> t.url_filter,
                url_filter_is_case_sensitive |-> None,
                if_domain |-> None,
                unless_domain |-> None,
                resource_type |-> Some({"Document"}),
                load_type |-> <<"ThirdParty">>,
                if_top_url |-> None,
                unless_top_url |-> None]])
     ELSE SingleRule(single_rule)

\* mutant: the split does not look at the load type
split_document_any_load_type(single_rule) ==
  LET t == single_rule.trigger
  IN IF t.resource_type.some
        /\ Cardinality(t.resource_type.val) > 1
        /\ "Document" \in t.resource_type.val
     THEN SplitDocument(
            [single_rule EXCEPT !.trigger.resource_type =
                                  Some(t.resource_type.val \ {"Document"})],
            [single_rule EXCEPT !.trigger.resource_type = Some({"Document"}),
                                !.trigger.load_type = <<"ThirdParty">>])
     ELSE SingleRule(single_rule)

\* the document split of the assembled rule
split_document(single_rule) ==
  LET t == single_rule.trigger
  IN IF t.resource_type.some
        /\ Cardinality(t.resource_type.val) > 1
        /\ "Document" \in t.resource_type.val
        /\ t.load_type = <<>>
     THEN
       LET non_doc_types == t.resource_type.val \ {"Document"}
           non_doc_rule ==
             [single_rule EXCEPT !.trigger.resource_type = Some(non_doc_types)]
           just_doc_rule ==
             [single_rule EXCEPT !.trigger.resource_type = Some({"Document"}),
                                 !.trigger.load_type = <<"ThirdParty">>]
       IN SplitDocument(non_doc_rule, just_doc_rule)
     ELSE SingleRule(single_rule)

\* mutant: is_none written for is_some
network_domains_conflict_is_none(if_domain, unless_domain) ==
  if_domain.some /\ ~unless_domain.some

\* the check that if_domain and unless_domain are not both present
network_domains_conflict(if_domain, unless_domain) ==
  if_domain.some /\ unless_domain.some

\* the body of `if let Some(raw_line) = v.raw_line`
network_rule_with_raw_line(v, raw_line) ==
  LET unsupported == unsupported_option(v)
      load_type == load_type_of(v.mask)
      url_filter == url_filter_of(v)
      domains == domain_lists(v, raw_line)
      resource_type == resource_type_of(v.mask)
  IN IF unsupported.some THEN Err(unsupported.val)
     ELSE IF url_filter.tag # "Ok" THEN url_filter
     ELSE IF domains.tag # "Ok" THEN domains
     ELSE IF network_domains_conflict(domains.val.if_domain, domains.val.unless_domain)
       THEN Err("UnlessAndIfDomainTogetherUnsupported")
     ELSE IF resource_type.tag # "Ok" THEN resource_type
     ELSE Ok(split_document(
            CbRule(blocking_type(v.mask), None, url_filter.val,
                   url_filter_is_case_sensitive_of(v.mask),
                   domains.val.if_domain, domains.val.unless_domain,
                   resource_type.val, load_type)))

\* mutant: a missing raw line is taken as the empty line
try_from_NetworkFilter_unwrap_or_default(v) ==
  network_rule_with_raw_line(v, IF v.raw_line.some THEN v.raw_line.val ELSE <<>>)

\* TryFrom<NetworkFilter> for CbRuleEquivalent
try_from_NetworkFilter(v) ==
  IF v.raw_line.some THEN network_rule_with_raw_line(v, v.raw_line.val)
  ELSE Err("NeedsDebugMode")

----------------------------------------------------------------------------
(* TryFrom<CosmeticFilter> for CbRule.                                     *)

\* CosmeticFilter::locations_before_sharp: the comma-separated tokens before
\* the '#', empty tokens skipped, each classified by a leading ~ (negation)
\* and a trailing .* (entity), the location being the token without them
locations_before_sharp(raw_line, sharp_index) ==
  LET NotEmptyPart(part) == part # <<>>
      parts == SelectSeq(Split(SliceTo(raw_line, sharp_index), ","), NotEmptyPart)
      Classify(part) ==
        LET negation == StartsWith(part, <<"~">>)
            entity == EndsWith(part, <<".", "*">>)
            start == IF negation THEN 1 ELSE 0
            end == IF entity THEN Len(part) - 2 ELSE Len(part)
        IN [location_type |->
              IF negation /\ entity THEN "NotEntity"
              ELSE IF negation THEN "NotHostname"
              ELSE IF entity THEN "Entity"
              ELSE "Hostname",
            location |-> SubSeq(part, start + 1, end)]
  IN MapSeq(parts, Classify)

\* mutant: the lists are not exchanged for an unhide rule
cosmetic_domains_not_inverted(mask, hostnames_vec, not_hostnames_vec) ==
  [unless_domain |-> not_hostnames_vec, if_domain |-> hostnames_vec]

\* (unless_domain, if_domain) chosen by the UNHIDE flag
cosmetic_domains(mask, hostnames_vec, not_hostnames_vec) ==
  IF contains(mask, {"UNHIDE"})
  THEN [unless_domain |-> hostnames_vec, if_domain |-> not_hostnames_vec]
  ELSE [unless_domain |-> not_hostnames_vec, if_domain |-> hostnames_vec]

\* the check that hostnames_vec and not_hostnames_vec are not both present
cosmetic_domains_conflict(hostnames_vec, not_hostnames_vec) ==
  hostnames_vec.some /\ not_hostnames_vec.some

\* mutant: the selector is left out of the action
cosmetic_rule_without_selector(selector, if_domain, unless_domain) ==
  CbRule("CssDisplayNone", None, Str_any, None,
         if_domain, unless_domain, None, <<>>)

\* the rule returned for a cosmetic filter
cosmetic_rule(selector, if_domain, unless_domain) ==
  CbRule("CssDisplayNone", Some(selector), Str_any, None,
         if_domain, unless_domain, None, <<>>)

\* TryFrom<CosmeticFilter> for CbRule
try_from_CosmeticFilter(v) ==
  IF v.style.some THEN Err("CosmeticStyleRulesNotSupported")
  ELSE IF contains(v.mask, {"SCRIPT_INJECT"}) THEN Err("ScriptletInjectionsNotSupported")
  ELSE IF v.raw_line.some THEN
    LET raw_line == v.raw_line.val
        sharp_index == Find(raw_line, <<"#">>)
    IN IF ~sharp_index.some THEN Panic("called Option::unwrap() on a None value")
       ELSE
         LET locations == locations_before_sharp(raw_line, sharp_index.val)
             IsEntity(l) == l.location_type \in {"Entity", "NotEntity"}
             IsHostname(l) == l.location_type = "Hostname"
             IsNotHostname(l) == l.location_type = "NotHostname"
             Location(l) == l.location
             any_entities == SelectSeq(locations, IsEntity) # <<>>
             hostnames_vec == non_empty(MapSeq(SelectSeq(locations, IsHostname), Location))
             not_hostnames_vec == non_empty(MapSeq(SelectSeq(locations, IsNotHostname), Location))
             d == cosmetic_domains(v.mask, hostnames_vec, not_hostnames_vec)
         IN IF any_entities THEN Err("CosmeticEntitiesUnsupported")
            ELSE IF cosmetic_domains_conflict(hostnames_vec, not_hostnames_vec)
              THEN Err("UnlessAndIfDomainTogetherUnsupported")
            ELSE Ok(cosmetic_rule(v.selector, d.if_domain, d.unless_domain))
  ELSE Err("NeedsDebugMode")

\* TryFrom<ParsedFilter> for CbRuleEquivalent
try_from_ParsedFilter(v) ==
  IF v.kind = "Network" THEN try_from_NetworkFilter(v.f)
  ELSE LET r == try_from_CosmeticFilter(v.f)
       IN IF r.tag = "Ok" THEN Ok(SingleRule(r.val)) ELSE r

----------------------------------------------------------------------------
(* IntoIterator for CbRuleEquivalent, CbRuleEquivalentIterator.            *)

into_iter(e) ==
  IF e.variant = "SingleRule"
  THEN [rules |-> <<Some(e.r1), None>>, index |-> 0]
  ELSE [rules |-> <<Some(e.r1), Some(e.r2)>>, index |-> 0]

\* mutant: the index starts again at the end of the array
next_index_wraps(it) ==
  [result |-> it.rules[it.index + 1],
   it |-> [rules |-> [it.rules EXCEPT ![it.index + 1] = None],
           index |-> (it.index + 1) % Len(it.rules)]]

\* mutant: the index is not advanced
next_index_not_advanced(it) ==
  IF it.index >= Len(it.rules) THEN [result |-> None, it |-> it]
  ELSE [result |-> it.rules[it.index + 1],
        it |-> [rules |-> [it.rules EXCEPT ![it.index + 1] = None],
                index |-> it.index]]

\* Iterator::next: the value returned and the iterator afterwards
next(it) ==
  IF it.index >= Len(it.rules) THEN [result |-> None, it |-> it]
  ELSE [result |-> it.rules[it.index + 1],
        it |-> [rules |-> [it.rules EXCEPT ![it.index + 1] = None],
                index |-> it.index + 1]]

----------------------------------------------------------------------------
(* The parsed filters given to the conversion.                             *)

NetworkFilter(mask, body, hostname, redirect, opt_domains, opt_not_domains, raw_line) ==
  [mask |-> mask, filter |-> body, hostname |-> hostname, redirect |-> redirect,
   opt_domains |-> opt_domains, opt_not_domains |-> opt_not_domains,
   raw_line |-> raw_line]

CosmeticFilter(mask, style, selector, raw_line) ==
  [mask |-> mask, style |-> style, selector |-> selector, raw_line |-> raw_line]

\* every sequence over S of length at most n
SeqsUpTo(S, n) == UNION {[1..k -> S] : k \in 0..n}

\* the characters of the enumerated filter bodies
Alphabet == SpecialChars \cup {"*", "a"}

Bodies == SeqsUpTo(Alphabet, MaxBodyLen) \ {<<>>}

FewBodies == {<<"a">>, <<"a", "^">>, <<"*">>, <<"^">>, <<"a", ".", "*", "/">>}

Hostnames == {<<"a", ".", "c">>, <<"b">>}

\* the mask of a rule without options: both parties, http and https
PartyFlags == {"THIRD_PARTY", "FIRST_PARTY"}
SchemeFlags == {"FROM_HTTP", "FROM_HTTPS"}
DefaultMask == PartyFlags \cup SchemeFlags \cup FROM_ANY

\* the resource-type flags of a rule that names at most MaxTypeOptions
\* types, or negates at most MaxTypeOptions, or negates all of them
TypeMasks ==
  {m \in SUBSET FROM_ANY :
     \/ Cardinality(m) <= MaxTypeOptions
     \/ Cardinality(FROM_ANY \ m) <= MaxTypeOptions}

FewTypeMasks == {FROM_ANY, {"FROM_OBJECT"}, {"FROM_IMAGE", "FROM_SUBDOCUMENT"}}

\* the option texts of the raw lines and the domain options parsed from
\* them; the conversion reads nothing but domain= from the options
Str_a_c == <<"a", ".", "c">>
Str_b_c == <<"b", ".", "c">>
Str_image == <<"i", "m", "a", "g", "e">>

NoDomains == [opts |-> <<>>, opt_domains |-> FALSE, opt_not_domains |-> FALSE]
BothDomains ==
  [opts |-> Str_domain_eq \o Str_a_c \o <<"|", "~">> \o Str_b_c,
   opt_domains |-> TRUE, opt_not_domains |-> TRUE]

DomainCases ==
  { NoDomains,
    [opts |-> Str_image, opt_domains |-> FALSE, opt_not_domains |-> FALSE],
    [opts |-> Str_domain_eq \o Str_a_c,
     opt_domains |-> TRUE, opt_not_domains |-> FALSE],
    [opts |-> Str_domain_eq \o <<"~">> \o Str_a_c,
     opt_domains |-> FALSE, opt_not_domains |-> TRUE],
    BothDomains,
    [opts |-> Str_image \o <<",">> \o Str_domain_eq
              \o Str_b_c \o <<"|">> \o Str_a_c \o <<",">> \o Str_image,
     opt_domains |-> TRUE, opt_not_domains |-> FALSE],
    [opts |-> Str_domain_eq \o <<"~">> \o Str_b_c
              \o <<"|", "~">> \o Str_a_c \o <<",">> \o Str_image,
     opt_domains |-> FALSE, opt_not_domains |-> TRUE] }

\* the pattern of the line a filter is parsed from: @@ of an exception,
\* || and the hostname or the | of a left anchor, the body, the | of a
\* right anchor
PatternText(mask, body, hostname) ==
  (IF "IS_EXCEPTION" \in mask THEN <<"@", "@">> ELSE <<>>)
  \o (IF hostname.some THEN <<"|", "|">> \o hostname.val
      ELSE IF "IS_LEFT_ANCHOR" \in mask THEN <<"|">> ELSE <<>>)
  \o (IF body.tag = "Simple" THEN body.part ELSE <<>>)
  \o (IF "IS_RIGHT_ANCHOR" \in mask THEN <<"|">> ELSE <<>>)

\* the raw line: the pattern, and the options behind a $
RawLine(mask, body, hostname, d) ==
  PatternText(mask, body, hostname)
  \o (IF d.opts = <<>> THEN <<>> ELSE <<"$">> \o d.opts)

Opt(b) == IF b THEN Some(<<>>) ELSE None

\* a network filter parsed in debug mode, without unsupported options
PlainNetwork(mask, body, hostname, d) ==
  NetworkFilter(mask, body, hostname, None,
                Opt(d.opt_domains), Opt(d.opt_not_domains),
                Some(RawLine(mask, body, hostname, d)))

\* simple bodies, exhaustively, with and without hostname and right anchor
BodyFilters ==
  {PlainNetwork(DefaultMask \cup a, Simple(b), h, NoDomains) :
     a \in SUBSET {"IS_RIGHT_ANCHOR"}, b \in Bodies,
     h \in {None, Some(<<"a", ".", "c">>)}}

\* bodies, hostnames, schemes and anchors
UrlFilters ==
  {PlainNetwork((DefaultMask \ (SchemeFlags \cup ws)) \cup s \cup a, b, h, NoDomains) :
     s \in SUBSET SchemeFlags, ws \in SUBSET {"FROM_WEBSOCKET"},
     a \in SUBSET {"IS_LEFT_ANCHOR", "IS_RIGHT_ANCHOR", "IS_HOSTNAME_REGEX"},
     b \in {Empty} \cup {Simple(x) : x \in FewBodies},
     h \in {None} \cup {Some(x) : x \in Hostnames}}

\* resource types, parties, exception and case flags
TypeFilters ==
  {PlainNetwork(SchemeFlags \cup t \cup p \cup x, Empty, Some(<<"a", ".", "c">>), NoDomains) :
     t \in TypeMasks, p \in SUBSET PartyFlags,
     x \in SUBSET {"IS_EXCEPTION", "MATCH_CASE"}}

\* domain options
DomainFilters ==
  {PlainNetwork(SchemeFlags \cup t \cup p \cup x, Simple(<<"a">>), None, d) :
     t \in FewTypeMasks, p \in SUBSET PartyFlags, x \in SUBSET {"IS_EXCEPTION"},
     d \in DomainCases}

\* everything the conversion refuses, in every combination
UnsupportedFlags ==
  {"FUZZY_MATCH", "GENERIC_HIDE", "EXPLICIT_CANCEL", "BAD_FILTER", "IS_CSP"}

RefusedFilters ==
  {NetworkFilter(PartyFlags \cup s \cup t \cup u, b, None,
                 Opt(redirect), Opt(d.opt_domains), Opt(d.opt_not_domains),
                 IF debug THEN Some(RawLine(s \cup t \cup u, b, None, d)) ELSE None) :
     s \in {SchemeFlags}, t \in {FROM_ANY, {"FROM_OBJECT"}},
     u \in SUBSET UnsupportedFlags,
     b \in {Simple(<<"a">>), AnyOf(<<<<"a">>, <<"b">>>>)},
     redirect \in BOOLEAN, d \in {NoDomains, BothDomains}, debug \in BOOLEAN}

NetworkFilters ==
  BodyFilters \cup UrlFilters \cup TypeFilters \cup DomainFilters \cup RefusedFilters

\* location tokens of cosmetic rules
LocationTokens ==
  {Str_a_c, Str_b_c, <<"~">> \o Str_a_c, <<"~">> \o Str_b_c,
   <<"g", ".", "*">>, <<"~", "g", ".", "*">>}

Selectors == {<<"#", "a", "d">>, <<".", "b">>}

\* the tokens joined by commas
RECURSIVE Join(_)
Join(tokens) ==
  IF tokens = <<>> THEN <<>>
  ELSE IF Len(tokens) = 1 THEN Head(tokens)
  ELSE Head(tokens) \o <<",">> \o Join(Tail(tokens))

\* the line of a cosmetic rule: locations, ## or #@#, selector
CosmeticLine(tokens, unhide, selector) ==
  Join(tokens) \o (IF unhide THEN <<"#", "@", "#">> ELSE <<"#", "#">>) \o selector

CosmeticFilters ==
  {CosmeticFilter((IF unhide THEN {"UNHIDE"} ELSE {}) \cup inject,
                  Opt(style), selector,
                  IF debug THEN Some(CosmeticLine(tokens, unhide, selector)) ELSE None) :
     tokens \in SeqsUpTo(LocationTokens, MaxLocations), unhide \in BOOLEAN,
     inject \in SUBSET {"SCRIPT_INJECT"}, style \in BOOLEAN,
     selector \in Selectors, debug \in BOOLEAN}

\* ParsedFilter
ParsedFilters ==
  {[kind |-> "Network", f |-> f] : f \in NetworkFilters}
  \cup {[kind |-> "Cosmetic", f |-> f] : f \in CosmeticFilters}

----------------------------------------------------------------------------
(* The state machine: one parsed filter is converted through one of the    *)
(* three TryFrom implementations, and an outcome is iterated.              *)

Pending == [tag |-> "Pending"]

\* the three statics of try_from(NetworkFilter)
Matchers == {"SPECIAL_CHARS", "REPLACE_WILDCARDS", "TRAILING_SEPARATOR"}

\* Regex::new in the closure of each static: the matcher, named by its pattern
Lazy_new(m) ==
  CASE m = "SPECIAL_CHARS" -> "([.+?^${}()|\\[\\]])"
    [] m = "REPLACE_WILDCARDS" -> "\\*"
    [] m = "TRAILING_SEPARATOR" -> "\\^$"

\* the statics before their first use; init_count counts the writes of the
\* value, by is the thread that runs or has run the closure
LazyUninit ==
  [m \in Matchers |->
     [state |-> "Incomplete", value |-> None, init_count |-> 0, by |-> 0]]

\* mutant: a cell whose closure is running is also taken for uninitialized
lazy_vacant_unsynchronized(cell) == cell.state # "Complete"

\* Lazy::force on a cell nobody has touched: the caller runs the closure
lazy_vacant(cell) == cell.state = "Incomplete"

\* Lazy::force on an initialized cell: the caller gets the reference
lazy_ready(cell) == cell.state = "Complete"

\* the statics the conversion of v dereferences, in the order of the code
matchers_used(v) ==
  IF ~v.raw_line.some THEN <<>>
  ELSE IF unsupported_option(v).some THEN <<>>
  ELSE IF v.filter.tag = "AnyOf" THEN <<>>
  ELSE IF v.filter.tag = "Simple" /\ v.hostname.some
    THEN <<"TRAILING_SEPARATOR", "SPECIAL_CHARS", "REPLACE_WILDCARDS", "SPECIAL_CHARS">>
  ELSE IF v.filter.tag = "Simple"
    THEN <<"TRAILING_SEPARATOR", "SPECIAL_CHARS", "REPLACE_WILDCARDS">>
  ELSE IF v.hostname.some THEN <<"SPECIAL_CHARS">>
  ELSE <<>>

\* the result of a thread that converts v with the matchers it has seen; a
\* matcher read before its value is written is no matcher
converted_with(v, seen) ==
  IF \A i \in 1..Len(seen) : seen[i] = Some(Lazy_new(matchers_used(v)[i]))
  THEN try_from_NetworkFilter(v)
  ELSE [tag |-> "Undefined"]

Threads == 1..NumThreads

\* no thread converts
ThreadsIdle == [t \in Threads |-> [pc |-> "idle"]]

\* the records the threads convert: every path through the statics, one of
\* them ending in the invalid-scheme fault
ConcurrentFilters ==
  { PlainNetwork(DefaultMask, Simple(<<"a", "*">>), Some(<<"a", ".", "c">>), NoDomains),
    PlainNetwork(DefaultMask \cup {"IS_LEFT_ANCHOR"}, Simple(<<"a", "^">>), None, NoDomains),
    PlainNetwork(DefaultMask, Empty, Some(<<"b">>), NoDomains),
    PlainNetwork(DefaultMask, Empty, None, NoDomains),
    PlainNetwork(DefaultMask \ (SchemeFlags \cup {"FROM_WEBSOCKET"}),
                 Simple(<<"a">>), None, NoDomains) }

Init ==
  /\ filter \in ParsedFilters
  /\ call = "none"
  /\ result = Pending
  /\ iter = None
  /\ returned = <<>>
  /\ lazy = LazyUninit
  /\ thread = ThreadsIdle

\* CbRuleEquivalent::try_from(ParsedFilter)
TryFromParsedFilter ==
  /\ call = "none"
  /\ call' = "ParsedFilter"
  /\ result' = try_from_ParsedFilter(filter)
  /\ UNCHANGED <<filter, iter, returned, lazy, thread>>

\* CbRuleEquivalent::try_from(NetworkFilter)
TryFromNetworkFilter ==
  /\ call = "none"
  /\ filter.kind = "Network"
  /\ call' = "NetworkFilter"
  /\ result' = try_from_NetworkFilter(filter.f)
  /\ UNCHANGED <<filter, iter, returned, lazy, thread>>

\* CbRule::try_from(CosmeticFilter)
TryFromCosmeticFilter ==
  /\ call = "none"
  /\ filter.kind = "Cosmetic"
  /\ call' = "CosmeticFilter"
  /\ result' = try_from_CosmeticFilter(filter.f)
  /\ UNCHANGED <<filter, iter, returned, lazy, thread>>

\* CbRuleEquivalent::into_iter on a successful outcome
IntoIter ==
  /\ call \in {"ParsedFilter", "NetworkFilter"}
  /\ result.tag = "Ok"
  /\ ~iter.some
  /\ iter' = Some(into_iter(result.val))
  /\ UNCHANGED <<filter, call, result, returned, lazy, thread>>

\* CbRuleEquivalentIterator::next
IterNext ==
  /\ iter.some
  /\ Len(returned) < MaxNextCalls
  /\ LET n == next(iter.val)
     IN /\ iter' = Some(n.it)
        /\ returned' = Append(returned, n.result)
  /\ UNCHANGED <<filter, call, result, lazy, thread>>

Next ==
  \/ TryFromParsedFilter
  \/ TryFromNetworkFilter
  \/ TryFromCosmeticFilter
  \/ IntoIter
  \/ IterNext

Spec == Init /\ [][Next]_vars

----------------------------------------------------------------------------
(* Threads that convert at the same time.  Each thread runs                *)
(* try_from(NetworkFilter) on a record of its own; what the threads share  *)
(* is the three statics.  A dereference of a static by replace_all is      *)
(* Lazy::force: the first caller marks the cell and runs the closure, a    *)
(* caller that finds the closure running waits, a caller that finds the    *)
(* value gets it.                                                          *)

ConcurrentInit ==
  /\ filter = [kind |-> "None"]
  /\ call = "none"
  /\ result = Pending
  /\ iter = None
  /\ returned = <<>>
  /\ lazy = LazyUninit
  /\ thread \in [Threads -> {[v |-> f, pc |-> "running", at |-> 0,
                              seen |-> <<>>, result |-> Pending] :
                               f \in ConcurrentFilters}]

\* the static the thread dereferences next
NextMatcher(t) == matchers_used(thread[t].v)[thread[t].at + 1]

AtDeref(t) ==
  /\ thread[t].pc = "running"
  /\ thread[t].at < Len(matchers_used(thread[t].v))

\* Lazy::force finds the cell untouched: the thread takes the initialization
LazyBeginInit(t) ==
  /\ AtDeref(t)
  /\ lazy_vacant(lazy[NextMatcher(t)])
  /\ lazy' = [lazy EXCEPT ![NextMatcher(t)].state = "Running",
                          ![NextMatcher(t)].by = t]
  /\ thread' = [thread EXCEPT ![t].pc = "initializing"]
  /\ UNCHANGED <<filter, call, result, iter, returned>>

\* the closure has compiled the matcher: the value is written, the cell is
\* complete
LazyFinishInit(t) ==
  /\ thread[t].pc = "initializing"
  /\ lazy' = [lazy EXCEPT ![NextMatcher(t)] =
                [state |-> "Complete",
                 value |-> Some(Lazy_new(NextMatcher(t))),
                 init_count |-> @.init_count + 1,
                 by |-> t]]
  /\ thread' = [thread EXCEPT ![t].pc = "running"]
  /\ UNCHANGED <<filter, call, result, iter, returned>>

\* replace_all on the value of an initialized cell
LazyDeref(t) ==
  /\ AtDeref(t)
  /\ lazy_ready(lazy[NextMatcher(t)])
  /\ thread' = [thread EXCEPT ![t].at = @ + 1,
                              ![t].seen = Append(@, lazy[NextMatcher(t)].value)]
  /\ UNCHANGED <<filter, call, result, iter, returned, lazy>>

\* the conversion of the thread returns, or ends in its fault
ThreadReturn(t) ==
  /\ thread[t].pc = "running"
  /\ thread[t].at = Len(matchers_used(thread[t].v))
  /\ thread' = [thread EXCEPT ![t].pc = "returned",
                              ![t].result = converted_with(thread[t].v, thread[t].seen)]
  /\ UNCHANGED <<filter, call, result, iter, returned, lazy>>

ConcurrentNext ==
  \E t \in Threads :
    \/ LazyBeginInit(t)
    \/ LazyFinishInit(t)
    \/ LazyDeref(t)
    \/ ThreadReturn(t)

ConcurrentSpec == ConcurrentInit /\ [][ConcurrentNext]_vars

----------------------------------------------------------------------------
(* What the claims speak about.                                            *)

Converted == call # "none"
IsNetwork == filter.kind = "Network"
IsCosmetic == filter.kind = "Cosmetic"
Succeeded == Converted /\ result.tag = "Ok"

\* the rules of a successful conversion, in the order of the outcome
RulesOf ==
  IF ~Succeeded THEN <<>>
  ELSE IF call = "CosmeticFilter" THEN <<result.val>>
  ELSE IF result.val.variant = "SingleRule" THEN <<result.val.r1>>
  ELSE <<result.val.r1, result.val.r2>>

RuleSet == {RulesOf[i] : i \in 1..Len(RulesOf)}

\* the include and exclude lists read from the raw text of the record:
\* the domain= option of a network rule, the hostnames before the '#' of a
\* cosmetic rule
RawDomainEntries ==
  LET raw == filter.f.raw_line.val
      dollar == Find(raw, <<"$">>)
      opts == SliceFrom(raw, dollar.val + 1)
      at == Find(opts, Str_domain_eq)
      value == SliceFrom(opts, at.val + Len(Str_domain_eq))
      comma == Find(value, <<",">>)
  IN IF dollar.some /\ at.some
     THEN Split(IF comma.some THEN SliceTo(value, comma.val) ELSE value, "|")
     ELSE <<>>

RawLocations ==
  LET raw == filter.f.raw_line.val
  IN locations_before_sharp(raw, Find(raw, <<"#">>).val)

RawIncludes ==
  IF ~filter.f.raw_line.some THEN <<>>
  ELSE IF IsNetwork
    THEN LET Is(d) == ~StartsWith(d, <<"~">>) IN SelectSeq(RawDomainEntries, Is)
  ELSE LET Is(l) == l.location_type = "Hostname"
           Loc(l) == l.location
       IN MapSeq(SelectSeq(RawLocations, Is), Loc)

RawExcludes ==
  IF ~filter.f.raw_line.some THEN <<>>
  ELSE IF IsNetwork
    THEN LET Is(d) == StartsWith(d, <<"~">>)
             Strip(d) == SliceFrom(d, 1)
         IN MapSeq(SelectSeq(RawDomainEntries, Is), Strip)
  ELSE LET Is(l) == l.location_type = "NotHostname"
           Loc(l) == l.location
       IN MapSeq(SelectSeq(RawLocations, Is), Loc)

BothListsInRawText == RawIncludes # <<>> /\ RawExcludes # <<>>

\* a check the conversion makes before it compares the two lists fails
EarlierCheckFails ==
  IF IsNetwork
  THEN \/ filter.f.redirect.some
       \/ filter.f.mask \cap UnsupportedFlags # {}
       \/ filter.f.filter.tag = "AnyOf"
       \/ /\ ~filter.f.hostname.some
          /\ filter.f.mask \cap (SchemeFlags \cup {"FROM_WEBSOCKET"}) = {}
          /\ ~(filter.f.filter.tag = "Simple" /\ "IS_LEFT_ANCHOR" \in filter.f.mask)
  ELSE \/ filter.f.style.some
       \/ "SCRIPT_INJECT" \in filter.f.mask
       \/ \E i \in 1..Len(RawLocations) :
            RawLocations[i].location_type \in {"Entity", "NotEntity"}

NoRuleHasBothDomainLists ==
  \A r \in RuleSet : ~(r.trigger.if_domain.some /\ r.trigger.unless_domain.some)

----------------------------------------------------------------------------
(* C1.  As claimed: no rule of a successful conversion has both if-domain  *)
(* and unless-domain, and every record whose raw text gives a non-empty    *)
(* include list and a non-empty exclude list fails with                    *)
(* UnlessAndIfDomainTogetherUnsupported.                                   *)
C1_Original ==
  Converted =>
    /\ NoRuleHasBothDomainLists
    /\ BothListsInRawText => result = Err("UnlessAndIfDomainTogetherUnsupported")

\* C1, amended: no rule of a successful conversion has both if-domain and
\* unless-domain; a record whose raw text gives a non-empty include list and
\* a non-empty exclude list never converts, and it fails with
\* UnlessAndIfDomainTogetherUnsupported unless an earlier check of the
\* conversion fails first.
C1_DomainExclusivity ==
  Converted =>
    /\ NoRuleHasBothDomainLists
    /\ BothListsInRawText =>
         /\ result.tag # "Ok"
         /\ ~EarlierCheckFails => result = Err("UnlessAndIfDomainTogetherUnsupported")

C1_Witness ==
  /\ Converted /\ IsNetwork /\ BothListsInRawText
  /\ result = Err("UnlessAndIfDomainTogetherUnsupported")

----------------------------------------------------------------------------
\* the resource types a mask maps to, flag by flag
TypeTag ==
  [f \in SupportedTypeFlags |->
     CASE f = "FROM_IMAGE" -> "Image"
       [] f = "FROM_MEDIA" -> "Media"
       [] f = "FROM_SCRIPT" -> "Script"
       [] f = "FROM_STYLESHEET" -> "StyleSheet"
       [] f = "FROM_SUBDOCUMENT" -> "Document"
       [] f = "FROM_FONT" -> "Font"
       [] f = "FROM_XMLHTTPREQUEST" -> "Raw"]

MappedTypes == {TypeTag[f] : f \in filter.f.mask \cap SupportedTypeFlags}

\* the record asks for a resource-type set (not every type)
HasTypeSet == ~(FROM_ANY \subseteq filter.f.mask)

\* neither party alone is asked for, so the load-type list is empty
NoPartyRestriction ==
  ("THIRD_PARTY" \in filter.f.mask) <=> ("FIRST_PARTY" \in filter.f.mask)

\* C2.  A network record that converts, whose mapped resource-type set has
\* at least two entries with Document among them and whose load-type list is
\* empty, gives SplitDocument(A, B): A has the mapped set without Document,
\* B has exactly {Document} and the load type [ThirdParty]; the two sets are
\* disjoint and their union is the mapped set.
C2_SplitCompleteness ==
  (Succeeded /\ IsNetwork /\ HasTypeSet /\ NoPartyRestriction
     /\ Cardinality(MappedTypes) >= 2 /\ "Document" \in MappedTypes) =>
    /\ result.val.variant = "SplitDocument"
    /\ result.val.r1.trigger.resource_type = Some(MappedTypes \ {"Document"})
    /\ result.val.r2.trigger.resource_type = Some({"Document"})
    /\ result.val.r1.trigger.resource_type.val
         \cap result.val.r2.trigger.resource_type.val = {}
    /\ result.val.r1.trigger.resource_type.val
         \cup result.val.r2.trigger.resource_type.val = MappedTypes
    /\ result.val.r2.trigger.load_type = <<"ThirdParty">>

C2_Witness ==
  /\ Succeeded /\ IsNetwork /\ HasTypeSet /\ NoPartyRestriction
  /\ MappedTypes = {"Document", "Image"}
  /\ result.val.variant = "SplitDocument"

----------------------------------------------------------------------------
\* C3.  next() called repeatedly on the iterator of an outcome returns the
\* rules of the outcome in their order and then None: one rule for
\* SingleRule, the non-document rule and then the document rule for
\* SplitDocument; one or two rules in all.
C3_IterationOrder ==
  iter.some =>
    /\ Len(RulesOf) \in {1, 2}
    /\ \A i \in 1..Len(returned) :
         returned[i] = IF i <= Len(RulesOf) THEN Some(RulesOf[i]) ELSE None
    /\ (result.val.variant = "SingleRule") <=> (Len(RulesOf) = 1)
    /\ (result.val.variant = "SplitDocument" /\ Len(returned) >= 2) =>
         /\ "Document" \notin returned[1].val.trigger.resource_type.val
         /\ returned[2].val.trigger.resource_type.val = {"Document"}

C3_Witness ==
  /\ iter.some
  /\ result.val.variant = "SplitDocument"
  /\ Len(returned) = 3
  /\ returned[1] = Some(result.val.r1)
  /\ returned[2] = Some(result.val.r2)
  /\ returned[3] = None

----------------------------------------------------------------------------
RawLineAbsent == ~filter.f.raw_line.some

\* C5.  As claimed: every conversion of a record without raw text fails
\* with NeedsDebugMode, network or cosmetic, whatever its other fields.
C5_Original ==
  (Converted /\ RawLineAbsent) => result = Err("NeedsDebugMode")

\* C5, amended: every conversion of a record without raw text fails; the
\* failure is NeedsDebugMode for every network record and for every cosmetic
\* record with neither a custom style nor the script-injection flag, it is
\* CosmeticStyleRulesNotSupported for a cosmetic record with a custom style,
\* and ScriptletInjectionsNotSupported for a cosmetic record with the
\* script-injection flag and no custom style.
C5_NeedsDebugMode ==
  (Converted /\ RawLineAbsent) =>
    result = IF IsNetwork THEN Err("NeedsDebugMode")
             ELSE IF filter.f.style.some THEN Err("CosmeticStyleRulesNotSupported")
             ELSE IF "SCRIPT_INJECT" \in filter.f.mask
               THEN Err("ScriptletInjectionsNotSupported")
             ELSE Err("NeedsDebugMode")

C5_Witness ==
  /\ Converted /\ RawLineAbsent /\ IsNetwork
  /\ filter.f.redirect.some
  /\ "FUZZY_MATCH" \in filter.f.mask
  /\ result = Err("NeedsDebugMode")

----------------------------------------------------------------------------
\* a body character as the claim writes it in the url filter
EscapedChar(c) ==
  IF c \in SpecialChars THEN <<"\\", c>>
  ELSE IF c = "*" THEN <<".", "*">>
  ELSE <<c>>

EscapedBody(body) == Concat([i \in 1..Len(body) |-> EscapedChar(body[i])])

\* the url filter of the single or first rule without the $ of a right anchor
UrlFilterBeforeAnchor ==
  LET u == RulesOf[1].trigger.url_filter
  IN IF "IS_RIGHT_ANCHOR" \in filter.f.mask /\ u # <<>> /\ u[Len(u)] = "$"
     THEN SubSeq(u, 1, Len(u) - 1) ELSE u

\* the url filter ends with the text e, and what precedes e does not
\* escape its first character
EndsWithUnescaped(u, e) ==
  /\ EndsWith(u, e)
  /\ Len(u) > Len(e) => u[Len(u) - Len(e)] # "\\"

SimpleBodyConverted ==
  Succeeded /\ IsNetwork /\ filter.f.filter.tag = "Simple"

\* C6.  As claimed: in the url filter of a converted network record with a
\* simple body, every body character among . + ? ^ $ { } ( ) | [ ] stands
\* behind exactly one backslash, every * stands as .* and every other
\* character is copied, in the order of the body.
C6_Original ==
  SimpleBodyConverted =>
    EndsWithUnescaped(UrlFilterBeforeAnchor, EscapedBody(filter.f.filter.part))

\* C6, amended: the same, except that one ^ standing at the very end of the
\* body is dropped and has no image in the url filter.
C6_Escaping ==
  SimpleBodyConverted =>
    LET part == filter.f.filter.part
        kept == IF part[Len(part)] = "^" THEN SubSeq(part, 1, Len(part) - 1) ELSE part
    IN EndsWithUnescaped(UrlFilterBeforeAnchor, EscapedBody(kept))

C6_Witness ==
  /\ SimpleBodyConverted
  /\ filter.f.filter.part = <<"*", ".">>
  /\ ~filter.f.hostname.some
  /\ RulesOf[1].trigger.url_filter = <<".", "*", "\\", ".">>

----------------------------------------------------------------------------
\* C7.  The url filter of every rule of a successful conversion is a
\* non-empty string.
C7_UrlFilterNonEmpty ==
  \A r \in RuleSet : r.trigger.url_filter # <<>>

----------------------------------------------------------------------------
\* a list as the rule records it: absent when empty
Recorded(list) == IF list = <<>> THEN None ELSE Some(list)

\* C8.  A converted cosmetic record with the unhide flag has its hostname
\* includes as unless-domain and its hostname excludes as if-domain; without
\* the flag the includes are if-domain and the excludes unless-domain.  The
\* hostnames are those of the raw text, without a * before them, in their
\* order, and an empty list is absent.
C8_CosmeticPolarity ==
  (Succeeded /\ IsCosmetic) =>
    LET t == RulesOf[1].trigger
    IN IF "UNHIDE" \in filter.f.mask
       THEN /\ t.unless_domain = Recorded(RawIncludes)
            /\ t.if_domain = Recorded(RawExcludes)
       ELSE /\ t.if_domain = Recorded(RawIncludes)
            /\ t.unless_domain = Recorded(RawExcludes)

C8_Witness ==
  /\ Succeeded /\ IsCosmetic
  /\ "UNHIDE" \in filter.f.mask
  /\ RulesOf[1].trigger.unless_domain = Some(<<Str_b_c, Str_a_c>>)
  /\ RulesOf[1].trigger.if_domain = None

----------------------------------------------------------------------------
\* C9.  A converted cosmetic record gives exactly one rule, SingleRule when
\* converted through ParsedFilter: its action is CssDisplayNone with the
\* selector of the record, its url filter is .*, its resource type, case
\* flag and top-url lists are absent and its load type is empty.
C9_CosmeticRule ==
  (Succeeded /\ IsCosmetic) =>
    /\ Len(RulesOf) = 1
    /\ call = "ParsedFilter" => result.val = SingleRule(RulesOf[1])
    /\ call = "CosmeticFilter" => result.val = RulesOf[1]
    /\ RulesOf[1].action = [typ |-> "CssDisplayNone", selector |-> Some(filter.f.selector)]
    /\ RulesOf[1].trigger.url_filter = <<".", "*">>
    /\ RulesOf[1].trigger.resource_type = None
    /\ RulesOf[1].trigger.url_filter_is_case_sensitive = None
    /\ RulesOf[1].trigger.if_top_url = None
    /\ RulesOf[1].trigger.unless_top_url = None
    /\ RulesOf[1].trigger.load_type = <<>>

C9_Witness ==
  /\ Succeeded /\ IsCosmetic
  /\ call = "ParsedFilter"
  /\ result.val.variant = "SingleRule"
  /\ result.val.r1.action.selector = Some(<<"#", "a", "d">>)
  /\ result.val.r1.trigger.if_domain = Some(<<Str_a_c>>)

----------------------------------------------------------------------------
\* the resource type of the rule before the document split
CandidateTypes ==
  IF result.val.variant = "SingleRule" THEN result.val.r1.trigger.resource_type
  ELSE Some(result.val.r1.trigger.resource_type.val
            \cup result.val.r2.trigger.resource_type.val)

\* nothing but the resource types can make the conversion fail
NothingElseFails ==
  /\ filter.f.raw_line.some
  /\ ~EarlierCheckFails
  /\ ~BothListsInRawText

\* C10.  A converted network record whose mask contains FROM_ANY has no
\* resource type; any other has exactly the images of its flags under
\* image->Image, media->Media, script->Script, stylesheet->StyleSheet,
\* subdocument->Document, font->Font, xmlhttprequest->Raw.  The flags object,
\* other, ping and websocket add nothing and do not make the conversion fail
\* when that set is not empty.
C10_ResourceTypes ==
  (Converted /\ IsNetwork) =>
    /\ Succeeded =>
         IF FROM_ANY \subseteq filter.f.mask
         THEN result.val = SingleRule(RulesOf[1])
              /\ RulesOf[1].trigger.resource_type = None
         ELSE CandidateTypes = Some(MappedTypes)
    /\ (HasTypeSet /\ MappedTypes # {}) =>
         /\ ~(result.tag = "Err" /\ result.err = "NoSupportedNetworkOptions")
         /\ NothingElseFails => Succeeded

C10_Witness ==
  /\ Succeeded /\ IsNetwork /\ HasTypeSet
  /\ {"FROM_SUBDOCUMENT", "FROM_WEBSOCKET"} \subseteq filter.f.mask
  /\ CandidateTypes = Some({"Document"})

----------------------------------------------------------------------------
\* the failure of the resource-type step
FailsWithNoSupportedNetworkOptions ==
  result.tag = "Err" /\ result.err = "NoSupportedNetworkOptions"

\* C11.  A network record that passes every earlier check fails with
\* NoSupportedNetworkOptions exactly when its mask does not contain FROM_ANY,
\* has none of the seven supported resource-type flags and has at least one
\* of object, other, ping, websocket; the failure carries exactly those of
\* the four flags that the mask has.
C11_NoSupportedNetworkOptions ==
  (Converted /\ IsNetwork /\ NothingElseFails) =>
    /\ FailsWithNoSupportedNetworkOptions <=>
         /\ ~(FROM_ANY \subseteq filter.f.mask)
         /\ filter.f.mask \cap SupportedTypeFlags = {}
         /\ filter.f.mask \cap UnsupportedTypeFlags # {}
    /\ FailsWithNoSupportedNetworkOptions =>
         result.mask = filter.f.mask \cap UnsupportedTypeFlags

C11_Witness ==
  /\ Converted /\ IsNetwork /\ NothingElseFails
  /\ result = ErrMask("NoSupportedNetworkOptions", {"FROM_OBJECT", "FROM_PING"})

----------------------------------------------------------------------------
\* the failures that name an unsupported feature the network record has
NetworkFeatureErrors ==
  (IF filter.f.redirect.some THEN {"NetworkRedirectUnsupported"} ELSE {})
  \cup (IF "FUZZY_MATCH" \in filter.f.mask THEN {"NetworkFuzzyMatchUnsupported"} ELSE {})
  \cup (IF "GENERIC_HIDE" \in filter.f.mask THEN {"NetworkGenerichideUnsupported"} ELSE {})
  \cup (IF "EXPLICIT_CANCEL" \in filter.f.mask
        THEN {"NetworkExplicitCancelUnsupported"} ELSE {})
  \cup (IF "BAD_FILTER" \in filter.f.mask THEN {"NetworkBadFilterUnsupported"} ELSE {})
  \cup (IF "IS_CSP" \in filter.f.mask THEN {"NetworkCspUnsupported"} ELSE {})
  \cup (IF filter.f.filter.tag = "AnyOf" THEN {"OptimizedRulesUnsupported"} ELSE {})

\* the failures that name an unsupported feature the cosmetic record has
CosmeticFeatureErrors ==
  (IF filter.f.style.some THEN {"CosmeticStyleRulesNotSupported"} ELSE {})
  \cup (IF "SCRIPT_INJECT" \in filter.f.mask
        THEN {"ScriptletInjectionsNotSupported"} ELSE {})
  \cup (IF filter.f.raw_line.some
           /\ \E i \in 1..Len(RawLocations) :
                RawLocations[i].location_type \in {"Entity", "NotEntity"}
        THEN {"CosmeticEntitiesUnsupported"} ELSE {})

FeatureErrors == IF IsNetwork THEN NetworkFeatureErrors ELSE CosmeticFeatureErrors

\* one failure and nothing with it: no rule, no iterator over rules
FailsWithOneOf(errors) ==
  /\ \E e \in errors : result = Err(e)
  /\ ~iter.some
  /\ returned = <<>>

\* C12.  As claimed: a record with an unsupported feature never converts;
\* it fails with one of the failures that name a feature it has (redirect,
\* fuzzy match, generic hide, explicit cancel, bad filter, CSP, AnyOf body;
\* custom style, script injection, entity location), and with nothing else.
C12_Original ==
  (Converted /\ FeatureErrors # {}) => FailsWithOneOf(FeatureErrors)

\* C12, amended: the same for every cosmetic record and for every network
\* record that has its raw text; a network record with an unsupported
\* feature and without raw text fails with NeedsDebugMode.
C12_UnsupportedFeatures ==
  (Converted /\ FeatureErrors # {}) =>
    IF IsNetwork /\ RawLineAbsent
    THEN FailsWithOneOf({"NeedsDebugMode"})
    ELSE FailsWithOneOf(FeatureErrors)

C12_Witness ==
  /\ Converted /\ IsNetwork /\ ~RawLineAbsent
  /\ {"FUZZY_MATCH", "IS_CSP"} \subseteq filter.f.mask
  /\ filter.f.filter.tag = "AnyOf"
  /\ ~filter.f.redirect.some
  /\ result = Err("NetworkFuzzyMatchUnsupported")

----------------------------------------------------------------------------
\* a hostname with each of . + ? ^ $ { } ( ) | [ ] behind a backslash
EscapedHostname(hostname) ==
  Concat([i \in 1..Len(hostname) |->
            IF hostname[i] \in SpecialChars
            THEN <<"\\", hostname[i]>> ELSE <<hostname[i]>>])

\* the body as the url filter has it: one ^ at the very end dropped, special
\* characters escaped, every * written .*
TransformedBody(part) ==
  EscapedBody(IF part # <<>> /\ part[Len(part)] = "^"
              THEN SubSeq(part, 1, Len(part) - 1) ELSE part)

\* the $ of a right anchor
RightAnchorText == IF "IS_RIGHT_ANCHOR" \in filter.f.mask THEN <<"$">> ELSE <<>>

WithHostnameConverted == Succeeded /\ IsNetwork /\ filter.f.hostname.some

\* C13.  As claimed: the url filter of a converted network record with a
\* hostname is the prefix ^[^:]+:(//)?([^/]+\.)?, the escaped hostname, the
\* transformed body and a $ exactly when the record is right-anchored, with
\* nothing else between hostname and body; for an empty body it is the
\* prefix and the escaped hostname alone.
C13_Original ==
  WithHostnameConverted =>
    \A r \in RuleSet :
      r.trigger.url_filter =
        HostnamePrefix \o EscapedHostname(filter.f.hostname.val)
        \o (IF filter.f.filter.tag = "Simple"
            THEN TransformedBody(filter.f.filter.part) \o RightAnchorText
            ELSE <<>>)

\* C13, amended: the same, except that for a simple body of a record with
\* the hostname-regex flag the text .* stands between the escaped hostname
\* and the transformed body.
C13_HostnameUrlFilter ==
  WithHostnameConverted =>
    \A r \in RuleSet :
      r.trigger.url_filter =
        HostnamePrefix \o EscapedHostname(filter.f.hostname.val)
        \o (IF filter.f.filter.tag = "Simple"
            THEN (IF "IS_HOSTNAME_REGEX" \in filter.f.mask
                  THEN <<".", "*">> ELSE <<>>)
                 \o TransformedBody(filter.f.filter.part) \o RightAnchorText
            ELSE <<>>)

C13_Witness ==
  /\ WithHostnameConverted
  /\ filter.f.hostname.val = <<"a", ".", "c">>
  /\ filter.f.filter = Simple(<<"a", ".", "*", "/">>)
  /\ {"IS_HOSTNAME_REGEX", "IS_RIGHT_ANCHOR"} \subseteq filter.f.mask
  /\ RulesOf[1].trigger.url_filter =
       HostnamePrefix \o <<"a", "\\", ".", "c", ".", "*",
                           "a", "\\", ".", ".", "*", "/", "$">>

----------------------------------------------------------------------------
HttpFlag == "FROM_HTTP" \in filter.f.mask
HttpsFlag == "FROM_HTTPS" \in filter.f.mask
WebsocketFlag == "FROM_WEBSOCKET" \in filter.f.mask
LeftAnchored == "IS_LEFT_ANCHOR" \in filter.f.mask

\* the scheme text the claim gives for the scheme flags of the record:
\* http and https, http only, https only, websocket with neither
SchemeText(both, http, https, websocket) ==
  IF HttpFlag /\ HttpsFlag THEN both
  ELSE IF HttpFlag THEN http
  ELSE IF HttpsFlag THEN https
  ELSE websocket

WithoutHostnameConverted == Succeeded /\ IsNetwork /\ ~filter.f.hostname.some

\* C14.  The url filter of a converted network record without hostname is,
\* for a simple body, ^ and the transformed body when the record is
\* left-anchored, and otherwise the scheme prefix (nothing for http and
\* https, ^http://.*, ^https://.*, or ^wss?://.* for websocket with neither)
\* and the transformed body, in both cases with a $ exactly when the record
\* is right-anchored; for an empty body it is ^https?://, ^http://,
\* ^https:// or ^wss?:// and never has the $.
C14_NoHostnameUrlFilter ==
  WithoutHostnameConverted =>
    /\ \A r \in RuleSet :
         r.trigger.url_filter =
           IF filter.f.filter.tag = "Simple"
           THEN (IF LeftAnchored THEN <<"^">>
                 ELSE SchemeText(<<>>, Str_http \o <<".", "*">>,
                                 Str_https \o <<".", "*">>,
                                 Str_wss_opt \o <<".", "*">>))
                \o TransformedBody(filter.f.filter.part) \o RightAnchorText
           ELSE SchemeText(Str_https_opt, Str_http, Str_https, Str_wss_opt)
    /\ ~(filter.f.filter.tag = "Simple" /\ LeftAnchored) =>
         (HttpFlag \/ HttpsFlag \/ WebsocketFlag)

C14_Witness ==
  /\ WithoutHostnameConverted
  /\ ~HttpFlag /\ ~HttpsFlag /\ WebsocketFlag /\ ~LeftAnchored
  /\ filter.f.filter = Simple(<<"a", "^">>)
  /\ RulesOf[1].trigger.url_filter =
       <<"^", "w", "s", "s", "?", ":", "/", "/", ".", "*", "a", "$">>

----------------------------------------------------------------------------
\* the flags of the record say that it has domain options
DomainOptionsPresent == filter.f.opt_domains.some \/ filter.f.opt_not_domains.some

\* every entry of the list behind a *
Starred(list) == [i \in 1..Len(list) |-> <<"*">> \o list[i]]

\* C15.  Every rule of a converted network record with domain options has
\* as if-domain the entries of the domain= option of the raw text that do
\* not start with ~, and as unless-domain those that do, without the ~; the
\* value of the option ends at the next comma or the end of the line and is
\* split on |; every entry is written behind a *, the entries keep their
\* order, and an empty list is absent.  Without domain options both lists
\* are absent.
C15_DomainLists ==
  (Succeeded /\ IsNetwork) =>
    \A r \in RuleSet :
      IF DomainOptionsPresent
      THEN /\ r.trigger.if_domain = Recorded(Starred(RawIncludes))
           /\ r.trigger.unless_domain = Recorded(Starred(RawExcludes))
      ELSE /\ r.trigger.if_domain = None
           /\ r.trigger.unless_domain = None

C15_Witness ==
  /\ Succeeded /\ IsNetwork /\ DomainOptionsPresent
  /\ result.val.variant = "SplitDocument"
  /\ result.val.r1.trigger.unless_domain
       = Some(<<<<"*">> \o Str_b_c, <<"*">> \o Str_a_c>>)
  /\ result.val.r2.trigger.unless_domain = result.val.r1.trigger.unless_domain
  /\ result.val.r1.trigger.if_domain = None

----------------------------------------------------------------------------
FirstPartyFlag == "FIRST_PARTY" \in filter.f.mask
ThirdPartyFlag == "THIRD_PARTY" \in filter.f.mask

\* the rule before the document split: the single rule, or the first rule
\* of a split, which keeps the load type of the rule it is split from
CandidateLoadType == RulesOf[1].trigger.load_type

\* C16.  The load type of the candidate rule of a converted network record
\* is empty when the first-party and third-party flags are both set or both
\* clear, [ThirdParty] when only third-party is set and [FirstParty] when
\* only first-party is set; no load type of any rule has more than one
\* entry.
C16_LoadType ==
  Succeeded =>
    /\ IsNetwork =>
         CandidateLoadType =
           IF FirstPartyFlag /\ ThirdPartyFlag THEN <<>>
           ELSE IF ThirdPartyFlag THEN <<"ThirdParty">>
           ELSE IF FirstPartyFlag THEN <<"FirstParty">>
           ELSE <<>>
    /\ \A r \in RuleSet : Len(r.trigger.load_type) <= 1

C16_Witness ==
  /\ Succeeded /\ IsNetwork
  /\ FirstPartyFlag /\ ~ThirdPartyFlag
  /\ "FROM_SUBDOCUMENT" \in filter.f.mask
  /\ result.val.variant = "SingleRule"
  /\ result.val.r1.trigger.load_type = <<"FirstParty">>

----------------------------------------------------------------------------
\* let single_rule: the rule assembled from the record before the document
\* split (of a network record that converts)
candidate_single_rule ==
  LET v == filter.f
      domains == domain_lists(v, v.raw_line.val).val
  IN CbRule(blocking_type(v.mask), None, url_filter_of(v).val,
            url_filter_is_case_sensitive_of(v.mask),
            domains.if_domain, domains.unless_domain,
            resource_type_of(v.mask).val, load_type_of(v.mask))

\* the fields of a rule that a split leaves alone
SharedFields(r) ==
  [action |-> r.action,
   url_filter |-> r.trigger.url_filter,
   url_filter_is_case_sensitive |-> r.trigger.url_filter_is_case_sensitive,
   if_domain |-> r.trigger.if_domain,
   unless_domain |-> r.trigger.unless_domain,
   if_top_url |-> r.trigger.if_top_url,
   unless_top_url |-> r.trigger.unless_top_url]

IsSplit == Succeeded /\ IsNetwork /\ result.val.variant = "SplitDocument"

\* C18.  The two rules of a SplitDocument outcome agree with each other and
\* with the candidate rule in action type, selector, url filter, case flag,
\* if-domain, unless-domain and the top-url lists; the first keeps the empty
\* load type of the candidate; the resource type of both and the load type
\* of the second are what differs from the candidate.
C18_SplitFrame ==
  IsSplit =>
    LET A == result.val.r1
        B == result.val.r2
    IN /\ SharedFields(A) = SharedFields(candidate_single_rule)
       /\ SharedFields(B) = SharedFields(candidate_single_rule)
       /\ A.trigger.load_type = candidate_single_rule.trigger.load_type
       /\ A.trigger.load_type = <<>>
       /\ A.trigger.resource_type # candidate_single_rule.trigger.resource_type
       /\ B.trigger.resource_type # candidate_single_rule.trigger.resource_type
       /\ B.trigger.load_type # candidate_single_rule.trigger.load_type

C18_Witness ==
  /\ IsSplit
  /\ "IS_EXCEPTION" \in filter.f.mask
  /\ result.val.r1.action.typ = "IgnorePreviousRules"
  /\ result.val.r1.trigger.unless_domain = Some(<<<<"*">> \o Str_a_c>>)
  /\ result.val.r2.trigger.unless_domain = Some(<<<<"*">> \o Str_a_c>>)
  /\ result.val.r2.trigger.load_type = <<"ThirdParty">>

----------------------------------------------------------------------------
\* the condition of the document split, on the candidate rule
SplitCondition ==
  LET t == candidate_single_rule.trigger
  IN /\ t.resource_type.some
     /\ Cardinality(t.resource_type.val) > 1
     /\ "Document" \in t.resource_type.val
     /\ t.load_type = <<>>

\* C19.  A converted network record gives SplitDocument only if the resource
\* type of the candidate is present, has more than one entry, Document among
\* them, and the load type is empty; in every other case it gives SingleRule
\* holding the candidate rule as it is.
C19_SplitOnlyIf ==
  (Succeeded /\ IsNetwork) =>
    /\ result.val.variant = "SplitDocument" => SplitCondition
    /\ ~SplitCondition => result.val = SingleRule(candidate_single_rule)

C19_Witness ==
  /\ Succeeded /\ IsNetwork
  /\ ThirdPartyFlag /\ ~FirstPartyFlag
  /\ result.val.variant = "SingleRule"
  /\ result.val.r1.trigger.resource_type = Some({"Document", "Image"})
  /\ result.val.r1.trigger.load_type = <<"ThirdParty">>

----------------------------------------------------------------------------
\* a network record that passes the checks before the url filter is built,
\* without hostname and without the http, https and websocket flags
NoSchemeNoHostname ==
  /\ IsNetwork
  /\ filter.f.raw_line.some
  /\ NetworkFeatureErrors = {}
  /\ ~filter.f.hostname.some
  /\ ~HttpFlag /\ ~HttpsFlag /\ ~WebsocketFlag

InvalidSchemeFault == result = Panic("Invalid scheme information")

\* C20.  As claimed: the conversion of such a record ends in the fault
\* "Invalid scheme information", with an empty or a simple body, left-
\* anchored or not.
C20_Original ==
  (Converted /\ NoSchemeNoHostname) => InvalidSchemeFault

\* C20, amended: it ends in the fault when the body is empty or the record
\* is not left-anchored; a left-anchored record with a simple body does not:
\* its scheme flags are not read, and it converts as any other left-anchored
\* record, to ^ and the transformed body.
C20_InvalidScheme ==
  (Converted /\ NoSchemeNoHostname) =>
    IF filter.f.filter.tag = "Simple" /\ LeftAnchored
    THEN /\ result.tag \in {"Ok", "Err"}
         /\ \A r \in RuleSet :
              r.trigger.url_filter =
                <<"^">> \o TransformedBody(filter.f.filter.part) \o RightAnchorText
    ELSE InvalidSchemeFault

C20_Witness ==
  /\ Converted /\ NoSchemeNoHostname
  /\ filter.f.filter.tag = "Empty"
  /\ LeftAnchored
  /\ InvalidSchemeFault

----------------------------------------------------------------------------
\* the statics a thread has dereferenced so far
DerefsDone(t) ==
  {matchers_used(thread[t].v)[i] : i \in 1..thread[t].at}

\* the thread has come to a dereference of m
HasReached(t, m) ==
  \/ m \in DerefsDone(t)
  \/ thread[t].at < Len(matchers_used(thread[t].v)) /\ NextMatcher(t) = m

\* C17.  With several threads converting at once, in every interleaving:
\* the value of each of SPECIAL_CHARS, REPLACE_WILDCARDS, TRAILING_SEPARATOR
\* is written at most once, and not before a thread comes to use it; once
\* written it is the compiled matcher and stays so; a thread that has used a
\* static has read the compiled matcher, never a cell without value; and
\* every thread that returns has the result its conversion gives alone.
C17_LazyMatchers ==
  /\ \A m \in Matchers :
       /\ lazy[m].init_count <= 1
       /\ lazy[m].state = "Complete" =>
            lazy[m].init_count = 1 /\ lazy[m].value = Some(Lazy_new(m))
       /\ lazy[m].state # "Complete" =>
            lazy[m].init_count = 0 /\ lazy[m].value = None
       /\ lazy[m].state # "Incomplete" => \E t \in Threads : HasReached(t, m)
       /\ (\E t \in Threads : m \in DerefsDone(t)) => lazy[m].state = "Complete"
  /\ \A t \in Threads :
       /\ \A i \in 1..Len(thread[t].seen) :
            thread[t].seen[i] = Some(Lazy_new(matchers_used(thread[t].v)[i]))
       /\ thread[t].pc = "returned" =>
            thread[t].result = try_from_NetworkFilter(thread[t].v)

C17_Witness ==
  /\ \A t \in Threads : thread[t].pc = "returned"
  /\ \A m \in Matchers : lazy[m].init_count = 1
  /\ lazy["TRAILING_SEPARATOR"].by = 1
  /\ lazy["SPECIAL_CHARS"].by = 2
  /\ Len(thread[1].seen) = 4
  /\ Len(thread[2].seen) = 1
  /\ thread[1].result.tag = "Ok"
  /\ thread[2].result.tag = "Ok"

----------------------------------------------------------------------------
----------------------------------------------------------------------------
\* the calls of next() that returned a rule
RuleCalls == {i \in 1..Len(returned) : returned[i].some}

\* C22.  Over the calls of next() on one iterator: after a call that
\* returned None every later call returns None; no rule is returned twice,
\* and a slot whose rule was returned is empty; the index is the number of
\* calls made, up to the two slots, so it never decreases and never exceeds
\* 2; the rules returned are never more than the rules of the outcome, and
\* as many once None has been returned.
C22_IteratorExhaustion ==
  iter.some =>
    /\ \A i \in 1..Len(returned) : \A j \in 1..Len(returned) :
         (i < j /\ ~returned[i].some) => ~returned[j].some
    /\ \A i \in RuleCalls : \A j \in RuleCalls :
         i # j => returned[i] # returned[j]
    /\ \A k \in 1..iter.val.index : iter.val.rules[k] = None
    /\ iter.val.index <= 2
    /\ iter.val.index = IF Len(returned) <= 2 THEN Len(returned) ELSE 2
    /\ Cardinality(RuleCalls) <= Len(RulesOf)
    /\ RuleCalls # 1..Len(returned) => Cardinality(RuleCalls) = Len(RulesOf)

C22_Witness ==
  /\ iter.some
  /\ result.val.variant = "SingleRule"
  /\ Len(returned) = 3
  /\ returned[1] = Some(result.val.r1)
  /\ returned[2] = None
  /\ returned[3] = None
  /\ iter.val.index = 2

====
